---- MODULE Spec2Model ----
(***************************************************************************)
(* Model of srt_transcriber: the timestamp formatter format_srt_time       *)
(* (transcribe.py), the caption synthesis loop of transcribe_to_srt        *)
(* (transcribe.py) and of the /transcribe stream (app.py), and the /burn   *)
(* stream (app.py).                                                        *)
(*                                                                         *)
(* Text is modelled by TLA+ strings, a character being a string of length  *)
(* one.  A time is a whole number of ticks of 1/10000 second, so that      *)
(* 3661.2345 s is the tick count 36612345; the Python float that the code  *)
(* computes with is the IEEE-754 double nearest to ticks/10000, and is     *)
(* modelled bit by bit (mantissa of 53 bits, round to nearest even).       *)
(***************************************************************************)
EXTENDS Integers, Sequences, FiniteSets, TLC

\* ------------------------------------------------------------------ bounds

\* Segments the recognizer yields in one run, at most.
MaxSegments == 2

\* Words of one segment, at most.
MaxWordsPerSegment == 3

\* Largest max_words a request asks for.
MaxK == 2

\* Largest time, in ticks, the formatter is applied to on its own.
MaxTicks == 10100

\* Lines of the encoder's stderr that /burn reads, at most.
MaxProgress == 2

\* Ticks per second: the resolution of the modelled times.
TicksPerSecond == 10 * 1000

\* ----------------------------------------------------------------- strings

\* str.strip() removes the characters for which str.isspace() holds.
IsSpace(c) == c \in {" ", "\n", "\t", "\r"}

RECURSIVE lstrip(_)
lstrip(s) ==
  IF Len(s) > 0 /\ IsSpace(SubSeq(s, 1, 1)) THEN lstrip(SubSeq(s, 2, Len(s))) ELSE s

RECURSIVE rstrip(_)
rstrip(s) ==
  IF Len(s) > 0 /\ IsSpace(SubSeq(s, Len(s), Len(s)))
  THEN rstrip(SubSeq(s, 1, Len(s) - 1)) ELSE s

strip(s) == rstrip(lstrip(s))

DigitChar(d) == SubSeq("0123456789", d + 1, d + 1)

\* f"{n}" of a non-negative int: its decimal digits, no leading zero.
RECURSIVE Dec(_)
Dec(n) == IF n < 10 THEN DigitChar(n) ELSE Dec(n \div 10) \o DigitChar(n % 10)

RECURSIVE Zeros(_)
Zeros(k) == IF k <= 0 THEN "" ELSE "0" \o Zeros(k - 1)

\* f"{n:0w}": zero-padded to the minimum width w, never cut.
Pad(n, w) == Zeros(w - Len(Dec(n))) \o Dec(n)

\* ------------------------------------------------------- IEEE-754 doubles

\* Bits of a double's mantissa.
MantissaBits == 53

\* Bits of one limb of the multi-limb arithmetic below.
LimbBits == 16

Limb == 2 ^ LimbBits

\* Limbs of a binary expansion: 96 bits, more than the 53 significant bits and
\* the zero bits that may precede them in a fraction of at least 1/10000.
ExpansionLimbs == 6

\* The binary digits of a natural number, most significant first.
RECURSIVE Bits(_)
Bits(n) == IF n = 0 THEN <<>> ELSE Append(Bits(n \div 2), n % 2)

\* The value of a short bit sequence given least significant bit first.
RECURSIVE BitsValue(_)
BitsValue(b) == IF b = <<>> THEN 0 ELSE Head(b) + 2 * BitsValue(Tail(b))

Reverse(s) == [n \in 1..Len(s) |-> s[Len(s) + 1 - n]]

\* b + 1, least significant bit first; one bit longer when every bit carries.
Inc(b) ==
  IF \A n \in 1..Len(b) : b[n] = 1 THEN [n \in 1..(Len(b) + 1) |-> IF n > Len(b) THEN 1 ELSE 0]
  ELSE LET z == CHOOSE n \in 1..Len(b) : b[n] = 0 /\ \A j \in 1..(n - 1) : b[j] = 1
       IN  [n \in 1..Len(b) |-> IF n < z THEN 0 ELSE IF n = z THEN 1 ELSE b[n]]

\* b without its high zero bits (b is least significant bit first).
Trim(b) ==
  IF \A n \in 1..Len(b) : b[n] = 0 THEN <<>>
  ELSE SubSeq(b, 1, CHOOSE n \in 1..Len(b) : b[n] = 1 /\ \A j \in (n + 1)..Len(b) : b[j] = 0)

\* The limbs (least significant first) of a bit sequence (lsb first), and back.
ToLimbs(b) ==
  [j \in 1..((Len(b) + LimbBits - 1) \div LimbBits) |->
     BitsValue(SubSeq(b, LimbBits * (j - 1) + 1,
                      IF LimbBits * j < Len(b) THEN LimbBits * j ELSE Len(b)))]

FromLimbs(l) ==
  [n \in 1..(LimbBits * Len(l)) |->
     (l[(n - 1) \div LimbBits + 1] \div (2 ^ ((n - 1) % LimbBits))) % 2]

\* l * k + carry for a small k, on limbs, least significant first.
RECURSIVE MulLimbs(_, _, _)
MulLimbs(l, k, carry) ==
  IF l = <<>> THEN <<carry>>
  ELSE LET t == Head(l) * k + carry
       IN  <<t % Limb>> \o MulLimbs(Tail(l), k, t \div Limb)

\* b * k for a small k, least significant bit first, without high zero bits.
MulSmall(b, k) == Trim(FromLimbs(MulLimbs(ToLimbs(b), k, 0)))

\* The binary expansion of rem/TicksPerSecond (0 <= rem < TicksPerSecond) by
\* long division, n limbs of it, most significant first.
RECURSIVE FracLimbs(_, _)
FracLimbs(rem, n) ==
  IF n = 0 THEN <<>>
  ELSE <<(rem * Limb) \div TicksPerSecond>> \o FracLimbs((rem * Limb) % TicksPerSecond, n - 1)

\* What the long division leaves after n limbs.
RECURSIVE FracRem(_, _)
FracRem(rem, n) == IF n = 0 THEN rem ELSE FracRem((rem * Limb) % TicksPerSecond, n - 1)

\* The first ExpansionLimbs * LimbBits bits of rem/TicksPerSecond, msb first.
FracBits(rem) ==
  LET l == FracLimbs(rem, ExpansionLimbs)
  IN  [n \in 1..(LimbBits * ExpansionLimbs) |->
         (l[(n - 1) \div LimbBits + 1] \div (2 ^ (LimbBits - 1 - ((n - 1) % LimbBits)))) % 2]

\* Round to nearest, ties to even: whether the kept bits (lsb first) go up,
\* given the first dropped bit and whether any later dropped bit is set.
RoundsUp(kept, guard, sticky) ==
  guard = 1 /\ (sticky \/ (kept # <<>> /\ kept[1] = 1))

\* The double nearest to ticks/TicksPerSecond: its integer part, and its
\* fraction as the integer frac (bits, lsb first) over 2^m.
ToDouble(ticks) ==
  LET q     == ticks \div TicksPerSecond
      rem   == ticks % TicksPerSecond
      fb    == FracBits(rem)
      \* the zero bits before the first 1 of a number below 1 are not significant
      lead  == IF q > 0 \/ rem = 0 THEN 0
               ELSE (CHOOSE n \in 1..Len(fb) : fb[n] = 1 /\ \A j \in 1..(n - 1) : fb[j] = 0) - 1
      m     == IF q = 0 /\ rem = 0 THEN 0 ELSE lead + MantissaBits - Len(Bits(q))
      kept  == Reverse(Bits(q) \o SubSeq(fb, 1, m))
      up    == RoundsUp(kept, fb[m + 1],
                        (\E n \in (m + 2)..Len(fb) : fb[n] = 1)
                          \/ FracRem(rem, ExpansionLimbs) # 0)
      man   == IF up THEN Inc(kept) ELSE kept
  IN  [int  |-> BitsValue(SubSeq(man, m + 1, Len(man))),
       frac |-> SubSeq(man, 1, m),
       m    |-> m]

\* The double product x * k of a double 0 <= x < 1 given as frac / 2^m by a small
\* integer k, truncated to an int: int(x * k).
IntOfProduct(frac, m, k) ==
  LET p == MulSmall(frac, k)
      d == Len(p) - MantissaBits
  IN  IF d <= 0 THEN BitsValue(SubSeq(p, m + 1, Len(p)))
      ELSE LET kept == SubSeq(p, d + 1, Len(p))
               up   == RoundsUp(kept, p[d], \E n \in 1..(d - 1) : p[n] = 1)
               r    == IF up THEN Inc(kept) ELSE kept
           IN  BitsValue(SubSeq(r, m - d + 1, Len(r)))

\* ------------------------------------------------------- format_srt_time

hours(seconds) == ToDouble(seconds).int \div 3600

minutes(seconds) == (ToDouble(seconds).int % 3600) \div 60

secs(seconds) == ToDouble(seconds).int % 60

millis(seconds) ==
  LET x == ToDouble(seconds) IN IntOfProduct(x.frac, x.m, 1000)

format_srt_time(seconds) ==
  Pad(hours(seconds), 2) \o ":" \o Pad(minutes(seconds), 2) \o ":"
    \o Pad(secs(seconds), 2) \o "," \o Pad(millis(seconds), 3)

\* ------------------------------------------------------------------ inputs

\* max_words is None (absent) or an int: <<>> or <<k>>.
None == <<>>

\* What argparse type=int (main) and int(max_words) (/transcribe) pass on.
MaxWordsChoices == {None} \cup {<<k>> : k \in (0 - 1)..MaxK}

\* The time of the j-th word boundary, in ticks: 0.0, 0.5, 1.0, 1.6, 2.101, ...
Time(j) == IF j <= 3 THEN <<0, 5000, 10000, 16000>>[j + 1] ELSE 16000 + (j - 3) * 5010

WordTexts == <<"Hi", " there", " friend", " ">>

\* The j-th recognized word (faster_whisper Word: start, end, word).
WordAt(j) ==
  [start |-> Time(j - 1), end |-> Time(j), word |-> WordTexts[((j - 1) % Len(WordTexts)) + 1]]

SegmentTexts == {" Hello world ", "  "}

\* Where a segment may start, as a word boundary.
StartSlots == {0, 1}

\* A recognized segment (faster_whisper Segment: start, end, text, words) that
\* starts at boundary a and carries n words; words is empty (or None) when n = 0.
Segment(a, n, t) ==
  [start |-> Time(a), end |-> Time(a + (IF n = 0 THEN 1 ELSE n)), text |-> t,
   words |-> [j \in 1..n |-> WordAt(a + j)]]

\* What the recognizer may yield next.  Nothing ties a segment to the one
\* before it: the recognizer's output is taken as it comes.
SegmentPool ==
  {Segment(a, n, t) : a \in StartSlots, n \in 0..MaxWordsPerSegment, t \in SegmentTexts}

\* Every time of the pool.
PoolTimes == {Time(j) : j \in 0..(MaxWordsPerSegment + 2)}

\* format_srt_time on the times of the pool.
srt_time == [t \in PoolTimes |-> format_srt_time(t)]

\* ------------------------------------------------------------------- state

VARIABLES
  arg,          \* format_srt_time on its own: the argument
  stamp,        \* format_srt_time on its own: the result ("" before the call)
  shell,        \* "none", "cli" (main), "web" (/transcribe), "burn" (/burn)
  pc,           \* where the shell is
  status,       \* the HTTP status of the response, or the exit code of main; 0: none yet
  max_words,    \* None or <<k>>
  consumed,     \* the segments the loop has pulled from the recognizer, in order
  i,            \* the offset of the current window in the current segment's words
  caption_num,  \* the running cue counter
  f,            \* the content of the subtitle file
  fstate,       \* "none", "open", "closed"
  cues,         \* history: the cues written so far, with the segment each came from
  events,       \* the events the stream has sent (web, burn)
  stdout,       \* the lines printed (cli)
  progress,     \* the encoder's stderr lines read so far (burn)
  returncode    \* the encoder's exit code (burn); -1: not exited

vars == <<arg, stamp, shell, pc, status, max_words, consumed, i, caption_num,
          f, fstate, cues, events, stdout, progress, returncode>>

run == <<shell, pc, status, max_words, consumed, i, caption_num,
         f, fstate, cues, events, stdout, progress, returncode>>

Idle ==
  /\ shell = "none" /\ pc = "idle" /\ status = 0 /\ max_words = None
  /\ consumed = <<>> /\ i = 0 /\ caption_num = 0 /\ f = "" /\ fstate = "none"
  /\ cues = <<>> /\ events = <<>> /\ stdout = <<>> /\ progress = 0 /\ returncode = 0 - 1

Init == arg = 0 /\ stamp = "" /\ Idle

\* --------------------------------------------------------- caption synthesis

segment == consumed[Len(consumed)]

\* `if max_words and segment.words`
Truthy(mw) == mw # None /\ mw[1] # 0

\* Mutant of UsesWords: `if max_words:`
UsesWords_Unchecked(seg) == Truthy(max_words)

UsesWords(seg) == Truthy(max_words) /\ seg.words # <<>>

\* range(0, n, k): whether offset j is one of its values' bound test.
InRange(j, n, k) == IF k > 0 THEN j < n ELSE j > n

\* words[i:i + max_words]
Slice(words, from, k) ==
  SubSeq(words, from + 1, IF from + k < Len(words) THEN from + k ELSE Len(words))

chunk == Slice(segment.words, i, max_words[1])

\* Mutant of Join: " ".join(w.word for w in chunk)
RECURSIVE Join_Spaced(_)
Join_Spaced(ws) ==
  IF ws = <<>> THEN ""
  ELSE IF Len(ws) = 1 THEN ws[1].word ELSE ws[1].word \o " " \o Join_Spaced(Tail(ws))

\* "".join(w.word for w in chunk)
RECURSIVE Join(_)
Join(ws) == IF ws = <<>> THEN "" ELSE Head(ws).word \o Join(Tail(ws))

\* Mutant of chunk_start: start = chunk[-1].end
chunk_start_FromEnd == chunk[Len(chunk)].end

chunk_start == chunk[1].start

chunk_end == chunk[Len(chunk)].end

chunk_text == strip(Join(chunk))

\* The three f.write calls of one cue.
Block(num, start, end, text) ==
  Dec(num) \o "\n" \o srt_time[start] \o " --> " \o srt_time[end] \o "\n" \o text \o "\n\n"

\* The cue the writes put in the file, with the segment and the branch it came from.
Cue(num, start, end, text, policy) ==
  [index |-> num, start |-> start, end |-> end, text |-> text,
   seg |-> Len(consumed), policy |-> policy]

SegmentEvent(end, text) == [type |-> "segment", time |-> srt_time[end], text |-> text]

\* print(f"[{format_srt_time(end)}] {text}")
SegmentLine(end, text) == "[" \o srt_time[end] \o "] " \o text

\* A cue is reported: an event of the stream, or a printed line.
Report(end, text) ==
  /\ events' = IF shell = "web" THEN Append(events, SegmentEvent(end, text)) ELSE events
  /\ stdout' = IF shell = "cli" THEN Append(stdout, SegmentLine(end, text)) ELSE stdout

StatusEvent(msg) == [type |-> "status", message |-> msg]

\* ------------------------------------------------------------ the two shells

\* main(): the input must exist, else exit code 1.
CliMain ==
  /\ pc = "idle"
  /\ \E exists \in BOOLEAN, mw \in MaxWordsChoices :
       IF ~exists
       THEN /\ status' = 1 /\ pc' = "exit"
            /\ UNCHANGED <<shell, max_words>>
       ELSE /\ shell' = "cli" /\ max_words' = mw /\ pc' = "load"
            /\ UNCHANGED status
  /\ UNCHANGED <<arg, stamp, consumed, i, caption_num, f, fstate, cues,
                 events, stdout, progress, returncode>>

\* POST /transcribe: 404 when the video is missing, else the stream's response.
WebTranscribe ==
  /\ pc = "idle"
  /\ \E exists \in BOOLEAN, mw \in MaxWordsChoices :
       IF ~exists
       THEN /\ status' = 404 /\ pc' = "exit"
            /\ UNCHANGED <<shell, max_words>>
       ELSE /\ shell' = "web" /\ max_words' = mw /\ pc' = "start" /\ status' = 200
  /\ UNCHANGED <<arg, stamp, consumed, i, caption_num, f, fstate, cues,
                 events, stdout, progress, returncode>>

\* generate(): the first yield.
GenStart ==
  /\ shell = "web" /\ pc = "start"
  /\ events' = Append(events, StatusEvent("Loading model"))
  /\ pc' = "load"
  /\ UNCHANGED <<arg, stamp, shell, status, max_words, consumed, i, caption_num,
                 f, fstate, cues, stdout, progress, returncode>>

\* WhisperModel(...) returns.
LoadModel ==
  /\ shell \in {"cli", "web"} /\ pc = "load"
  /\ events' = IF shell = "web" THEN Append(events, StatusEvent("Starting transcription..."))
               ELSE events
  /\ pc' = "transcribe"
  /\ UNCHANGED <<arg, stamp, shell, status, max_words, consumed, i, caption_num,
                 f, fstate, cues, stdout, progress, returncode>>

\* model.transcribe(...) returns the segments (not yet computed) and the language.
Transcribe ==
  /\ shell \in {"cli", "web"} /\ pc = "transcribe"
  /\ events' = IF shell = "web" THEN Append(events, StatusEvent("Detected language")) ELSE events
  /\ stdout' = IF shell = "cli" THEN Append(stdout, "Detected language") ELSE stdout
  /\ pc' = "open"
  /\ UNCHANGED <<arg, stamp, shell, status, max_words, consumed, i, caption_num,
                 f, fstate, cues, progress, returncode>>

\* WhisperModel(...), model.transcribe(...) or the iteration of the segments
\* raises: nothing catches it.  Inside the with block the file is closed on the
\* way out; the generator ends, and main dies with a traceback (exit code 1).
RecognizerRaises ==
  /\ shell \in {"cli", "web"} /\ pc \in {"load", "transcribe", "loop"}
  /\ pc' = "raised"
  /\ fstate' = IF fstate = "open" THEN "closed" ELSE fstate
  /\ status' = IF shell = "cli" THEN 1 ELSE status
  /\ UNCHANGED <<arg, stamp, shell, max_words, consumed, i, caption_num,
                 f, cues, events, stdout, progress, returncode>>

\* with open(path, "w") as f: caption_num = 1
OpenFile ==
  /\ shell \in {"cli", "web"} /\ pc = "open"
  /\ f' = "" /\ fstate' = "open" /\ caption_num' = 1
  /\ pc' = "loop"
  /\ UNCHANGED <<arg, stamp, shell, status, max_words, consumed, i, cues,
                 events, stdout, progress, returncode>>

\* for segment in segments: the next segment, and the branch it takes.
NextSegment ==
  /\ shell \in {"cli", "web"} /\ pc = "loop" /\ Len(consumed) < MaxSegments
  /\ \E seg \in SegmentPool :
       /\ consumed' = Append(consumed, seg)
       /\ pc' = IF UsesWords(seg)
                THEN (IF InRange(0, Len(seg.words), max_words[1]) THEN "chunk" ELSE "loop")
                ELSE "whole"
  /\ i' = 0
  /\ UNCHANGED <<arg, stamp, shell, status, max_words, caption_num, f, fstate,
                 cues, events, stdout, progress, returncode>>

\* The writes of one window of words.
WriteChunk ==
  /\ pc = "chunk"
  /\ f' = f \o Block(caption_num, chunk_start, chunk_end, chunk_text)
  /\ cues' = Append(cues, Cue(caption_num, chunk_start, chunk_end, chunk_text, "words"))
  /\ pc' = "chunk_report"
  /\ UNCHANGED <<arg, stamp, shell, status, max_words, consumed, i, caption_num,
                 fstate, events, stdout, progress, returncode>>

\* The yield (or print) of one window.
ReportChunk ==
  /\ pc = "chunk_report"
  /\ Report(chunk_end, chunk_text)
  /\ pc' = "chunk_next"
  /\ UNCHANGED <<arg, stamp, shell, status, max_words, consumed, i, caption_num,
                 f, fstate, cues, progress, returncode>>

\* caption_num += 1, and the next value of range(0, len(words), max_words).
NextChunk ==
  /\ pc = "chunk_next"
  /\ caption_num' = caption_num + 1
  /\ i' = i + max_words[1]
  /\ pc' = IF InRange(i + max_words[1], Len(segment.words), max_words[1]) THEN "chunk" ELSE "loop"
  /\ UNCHANGED <<arg, stamp, shell, status, max_words, consumed, f, fstate,
                 cues, events, stdout, progress, returncode>>

\* The writes of a whole segment.
WriteWhole ==
  /\ pc = "whole"
  /\ f' = f \o Block(caption_num, segment.start, segment.end, strip(segment.text))
  /\ cues' = Append(cues, Cue(caption_num, segment.start, segment.end, strip(segment.text), "whole"))
  /\ pc' = "whole_report"
  /\ UNCHANGED <<arg, stamp, shell, status, max_words, consumed, i, caption_num,
                 fstate, events, stdout, progress, returncode>>

\* Mutant of ReportWhole: nothing is yielded or printed.
ReportWhole_Silent ==
  /\ pc = "whole_report"
  /\ pc' = "whole_next"
  /\ UNCHANGED <<arg, stamp, shell, status, max_words, consumed, i, caption_num,
                 f, fstate, cues, events, stdout, progress, returncode>>

\* The yield (or print) of a whole segment.
ReportWhole ==
  /\ pc = "whole_report"
  /\ Report(segment.end, strip(segment.text))
  /\ pc' = "whole_next"
  /\ UNCHANGED <<arg, stamp, shell, status, max_words, consumed, i, caption_num,
                 f, fstate, cues, progress, returncode>>

\* Mutant of NextWhole: the counter is not advanced.
NextWhole_NoIncrement ==
  /\ pc = "whole_next"
  /\ pc' = "loop"
  /\ UNCHANGED <<arg, stamp, shell, status, max_words, consumed, i, caption_num, f, fstate,
                 cues, events, stdout, progress, returncode>>

\* caption_num += 1
NextWhole ==
  /\ pc = "whole_next"
  /\ caption_num' = caption_num + 1
  /\ pc' = "loop"
  /\ UNCHANGED <<arg, stamp, shell, status, max_words, consumed, i, f, fstate,
                 cues, events, stdout, progress, returncode>>

\* The segments are exhausted: the file is closed, then the last yield (or print).
Finish ==
  /\ shell \in {"cli", "web"} /\ pc = "loop"
  /\ fstate' = "closed"
  /\ events' = IF shell = "web" THEN Append(events, [type |-> "complete"]) ELSE events
  /\ stdout' = IF shell = "cli" THEN Append(stdout, "\nSaved to") ELSE stdout
  /\ pc' = "done"
  /\ UNCHANGED <<arg, stamp, shell, status, max_words, consumed, i, caption_num,
                 f, cues, progress, returncode>>

\* ------------------------------------------------------------------- /burn

\* POST /burn: 404 when the video or the subtitle file is missing, else the
\* stream's response.
WebBurn ==
  /\ pc = "idle"
  /\ \E video_exists \in BOOLEAN, srt_exists \in BOOLEAN :
       IF ~video_exists \/ ~srt_exists
       THEN /\ status' = 404 /\ pc' = "exit" /\ UNCHANGED shell
       ELSE /\ status' = 200 /\ pc' = "burn_start" /\ shell' = "burn"
  /\ UNCHANGED <<arg, stamp, max_words, consumed, i, caption_num, f, fstate,
                 cues, events, stdout, progress, returncode>>

\* generate(): the two status yields.
BurnStart ==
  /\ shell = "burn" /\ pc = "burn_start"
  /\ events' = Append(events, StatusEvent("Starting ffmpeg..."))
  /\ pc' = "burn_output"
  /\ UNCHANGED <<arg, stamp, shell, status, max_words, consumed, i, caption_num,
                 f, fstate, cues, stdout, progress, returncode>>

BurnOutput ==
  /\ shell = "burn" /\ pc = "burn_output"
  /\ events' = Append(events, StatusEvent("Output"))
  /\ pc' = "burn_spawn"
  /\ UNCHANGED <<arg, stamp, shell, status, max_words, consumed, i, caption_num,
                 f, fstate, cues, stdout, progress, returncode>>

\* subprocess.Popen(cmd, ...): the encoder runs, or (no ffmpeg) Popen raises.
BurnSpawn ==
  /\ shell = "burn" /\ pc = "burn_spawn"
  /\ \E spawned \in BOOLEAN : pc' = IF spawned THEN "burn_read" ELSE "raised"
  /\ UNCHANGED <<arg, stamp, shell, status, max_words, consumed, i, caption_num,
                 f, fstate, cues, events, stdout, progress, returncode>>

\* for line in process.stderr: a line that is not blank is a progress event.
BurnLine ==
  /\ shell = "burn" /\ pc = "burn_read" /\ progress < MaxProgress
  /\ progress' = progress + 1
  /\ \E line \in {"", "frame= 1"} :
       events' = IF strip(line) # "" THEN Append(events, [type |-> "progress", message |-> strip(line)])
                 ELSE events
  /\ UNCHANGED <<arg, stamp, shell, pc, status, max_words, consumed, i, caption_num,
                 f, fstate, cues, stdout, returncode>>

\* stderr ends; process.wait(); complete on exit code 0, error otherwise.
BurnExit ==
  /\ shell = "burn" /\ pc = "burn_read"
  /\ \E rc \in {0, 1} :
       /\ returncode' = rc
       /\ events' = Append(events, [type |-> IF rc = 0 THEN "complete" ELSE "error"])
  /\ pc' = "done"
  /\ UNCHANGED <<arg, stamp, shell, status, max_words, consumed, i, caption_num,
                 f, fstate, cues, stdout, progress>>

\* ----------------------------------------------------------- specifications

Next ==
  \/ CliMain \/ WebTranscribe \/ GenStart \/ LoadModel \/ Transcribe
  \/ RecognizerRaises \/ OpenFile \/ NextSegment
  \/ WriteChunk \/ ReportChunk \/ NextChunk
  \/ WriteWhole \/ ReportWhole \/ NextWhole \/ Finish
  \/ WebBurn \/ BurnStart \/ BurnOutput \/ BurnSpawn \/ BurnLine \/ BurnExit

Spec == Init /\ [][Next]_vars

\* format_srt_time on its own, on every time up to MaxTicks and on the times
\* the documentation gives (59.999 s, 3661.2345 s).
FormatTimes == (0..MaxTicks) \cup {599990, 36612345}

InitFormat == arg \in FormatTimes /\ stamp = "" /\ Idle

Format == stamp = "" /\ stamp' = format_srt_time(arg) /\ UNCHANGED <<arg, run>>

SpecFormat == InitFormat /\ [][Format]_vars

\* ------------------------------------------------------------------ claims

Min(a, b) == IF a < b THEN a ELSE b

Positive(mw) == mw # None /\ mw[1] > 0

\* Segment number s has been through the loop body.
Completed(s) == s < Len(consumed) \/ pc \in {"loop", "done", "raised"}

\* The cues written for segment number s, in order.
CuesOf(s) == SelectSeq(cues, LAMBDA c : c.seg = s)

\* t is s without its leading and trailing whitespace.
IsTrimOf(t, s) ==
  /\ Len(t) <= Len(s)
  /\ t # "" => ~IsSpace(SubSeq(t, 1, 1)) /\ ~IsSpace(SubSeq(t, Len(t), Len(t)))
  /\ \E a \in 0..(Len(s) - Len(t)) :
       /\ SubSeq(s, a + 1, a + Len(t)) = t
       /\ \A n \in 1..Len(s) : (n <= a \/ n > a + Len(t)) => IsSpace(SubSeq(s, n, n))

\* The texts of words a..b of ws, one after the other.
RECURSIVE WindowText(_, _, _)
WindowText(ws, a, b) == IF a > b THEN "" ELSE WindowText(ws, a, b - 1) \o ws[b].word

\* The content of a file of these cues.
RECURSIVE Blocks(_)
Blocks(cs) ==
  IF cs = <<>> THEN ""
  ELSE Blocks(SubSeq(cs, 1, Len(cs) - 1))
         \o Block(cs[Len(cs)].index, cs[Len(cs)].start, cs[Len(cs)].end, cs[Len(cs)].text)

\* C1: with max_words absent or positive, the cues of a run carry the indices
\* 1, 2, ..., K in the order they are written, across segments and across both
\* policies, and these are the cues the file holds.
C1_IndicesContiguous ==
  (max_words = None \/ Positive(max_words)) =>
    /\ \A n \in 1..Len(cues) : cues[n].index = n
    /\ f = Blocks(cues)

C1_Witness ==
  /\ pc = "done" /\ Positive(max_words) /\ Len(cues) >= 3
  /\ \E a \in 1..Len(consumed), b \in 1..Len(consumed) :
       a < b /\ consumed[a].words # <<>> /\ consumed[b].words = <<>>

\* C2: a segment with words w_1..w_n under a positive max_words = k gives
\* ceil(n/k) cues, the j-th from words (j-1)k+1 .. min(jk, n): start of its first
\* word, end of its last, text the words' texts joined with no separator and
\* trimmed; the documented example (Hi, there, friend with k = 2) gives
\* (0.0, 1.0, "Hi there") and (1.0, 1.6, "friend").
C2_WordWindows ==
  \A s \in 1..Len(consumed) :
    (Completed(s) /\ Positive(max_words) /\ consumed[s].words # <<>>) =>
      LET ws == consumed[s].words
          n  == Len(ws)
          k  == max_words[1]
          cs == CuesOf(s)
      IN  /\ Len(cs) = (n + k - 1) \div k
          /\ \A j \in 1..Len(cs) :
               /\ cs[j].start = ws[(j - 1) * k + 1].start
               /\ cs[j].end = ws[Min(j * k, n)].end
               /\ IsTrimOf(cs[j].text, WindowText(ws, (j - 1) * k + 1, Min(j * k, n)))
          /\ (ws = Segment(0, 3, "").words /\ k = 2) =>
               /\ cs[1].start = 0 /\ cs[1].end = 10000 /\ cs[1].text = "Hi there"
               /\ cs[2].start = 10000 /\ cs[2].end = 16000 /\ cs[2].text = "friend"

C2_Witness ==
  /\ pc = "done" /\ max_words = <<2>> /\ Len(consumed) = 1
  /\ consumed[1].words = Segment(0, 3, "").words
  /\ Len(cues) = 2 /\ cues[1].text = "Hi there" /\ cues[2].text = "friend"

\* A cue that copies a segment: its times, and its text trimmed.
IsWholeCue(c, seg) ==
  c.policy = "whole" /\ c.start = seg.start /\ c.end = seg.end /\ IsTrimOf(c.text, seg.text)

\* C3: the policy is chosen per segment: one whole cue whenever max_words is
\* absent or the segment has no words, word windows only when max_words is
\* present and the segment has words; without max_words N segments give N
\* cues, cue n copying segment n; with max_words = 1, a segment with words
\* followed by one without gives one-word cues and then one whole cue, the
\* numbering going on.
C3_PolicyPerSegment ==
  /\ \A s \in 1..Len(consumed) :
       (Completed(s) /\ (max_words = None \/ consumed[s].words = <<>>)) =>
         Len(CuesOf(s)) = 1 /\ IsWholeCue(CuesOf(s)[1], consumed[s])
  /\ \A n \in 1..Len(cues) :
       cues[n].policy = "words" => max_words # None /\ consumed[cues[n].seg].words # <<>>
  /\ (pc = "done" /\ max_words = None) =>
       /\ Len(cues) = Len(consumed)
       /\ \A n \in 1..Len(cues) : cues[n].index = n /\ IsWholeCue(cues[n], consumed[n])
  /\ (pc = "done" /\ max_words = <<1>> /\ Len(consumed) = 2
        /\ consumed[1].words # <<>> /\ consumed[2].words = <<>>) =>
       LET n == Len(consumed[1].words)
       IN  /\ Len(cues) = n + 1
           /\ \A j \in 1..n :
                /\ cues[j].policy = "words" /\ cues[j].index = j
                /\ cues[j].start = consumed[1].words[j].start
                /\ cues[j].end = consumed[1].words[j].end
           /\ cues[n + 1].index = n + 1 /\ IsWholeCue(cues[n + 1], consumed[2])

C3_Witness ==
  /\ pc = "done" /\ max_words = <<1>> /\ Len(consumed) = 2
  /\ Len(consumed[1].words) >= 2 /\ consumed[2].words = <<>>
  /\ Len(cues) = Len(consumed[1].words) + 1

\* C4: format_srt_time on a time of t whole milliseconds gives the fields
\* t div 3600000, (t div 60000) mod 60, (t div 1000) mod 60 and t mod 1000,
\* rendered HH:MM:SS,mmm zero-padded to widths 2, 2, 2 and 3; what is below a
\* millisecond is cut, never rounded up.
C4_FormatFields ==
  stamp # "" =>
    LET t == arg \div (TicksPerSecond \div 1000)
    IN  stamp = Pad(t \div 3600000, 2) \o ":" \o Pad((t \div 60000) % 60, 2) \o ":"
                  \o Pad((t \div 1000) % 60, 2) \o "," \o Pad(t % 1000, 3)

\* Every segment and word of the input has 0 <= start <= end, and the words
\* of a segment are in time order.
InputWellFormed ==
  \A s \in 1..Len(consumed) :
    LET seg == consumed[s]
    IN  /\ 0 <= seg.start /\ seg.start <= seg.end
        /\ \A j \in 1..Len(seg.words) :
             /\ 0 <= seg.words[j].start /\ seg.words[j].start <= seg.words[j].end
             /\ j > 1 => seg.words[j - 1].end <= seg.words[j].start

\* C5: on well-formed input every cue written has end >= start and a text that
\* is not empty and has no leading or trailing whitespace.
C5_CuesWellFormed ==
  InputWellFormed =>
    \A n \in 1..Len(cues) :
      /\ cues[n].end >= cues[n].start
      /\ cues[n].text # ""
      /\ ~IsSpace(SubSeq(cues[n].text, 1, 1))
      /\ ~IsSpace(SubSeq(cues[n].text, Len(cues[n].text), Len(cues[n].text)))

\* C6, as stated: the start times of the cues never decrease in the order the
\* cues are written.
C6_StartsNonDecreasing ==
  \A a \in 1..Len(cues), b \in 1..Len(cues) : a < b => cues[a].start <= cues[b].start

\* The start times of the input in reading order: a segment's start, then the
\* starts of its words.
RECURSIVE InputStarts(_)
InputStarts(segs) ==
  IF segs = <<>> THEN <<>>
  ELSE InputStarts(SubSeq(segs, 1, Len(segs) - 1))
         \o <<segs[Len(segs)].start>>
         \o [j \in 1..Len(segs[Len(segs)].words) |-> segs[Len(segs)].words[j].start]

InputOrdered ==
  LET st == InputStarts(consumed)
  IN  \A a \in 1..Len(st), b \in 1..Len(st) : a < b => st[a] <= st[b]

\* C6, amended: the start times of the cues never decrease provided the start
\* times of the input do not (each segment's start, then its words' starts, in
\* input order); the synthesizer copies the times and does not sort.
C6_StartsFollowInput == InputOrdered => C6_StartsNonDecreasing

C6_Witness ==
  /\ pc = "done" /\ InputOrdered /\ Positive(max_words) /\ Len(consumed) = 2
  /\ Len(consumed[1].words) >= 2 /\ consumed[2].words = <<>>
  /\ Len(cues) >= 3 /\ cues[1].start < cues[Len(cues)].start

\* --- a reader of the subtitle file, for C7

\* The positions of the line ends of a text.
LineEnds(s) == {n \in 1..Len(s) : SubSeq(s, n, n) = "\n"}

\* The position of the k-th line end (0 for k = 0).
LineEnd(s, k) ==
  IF k = 0 THEN 0
  ELSE CHOOSE n \in LineEnds(s) : Cardinality({m \in LineEnds(s) : m <= n}) = k

\* The lines of a text that ends with a line end.
Lines(s) ==
  [k \in 1..Cardinality(LineEnds(s)) |-> SubSeq(s, LineEnd(s, k - 1) + 1, LineEnd(s, k) - 1)]

\* The value of a text of decimal digits; -1 when it is no such text.
ParseInt(s) ==
  IF s = "" \/ \E n \in 1..Len(s) : \A d \in 0..9 : SubSeq(s, n, n) # DigitChar(d)
  THEN 0 - 1
  ELSE LET digit(n) == CHOOSE d \in 0..9 : SubSeq(s, n, n) = DigitChar(d)
           v[n \in 0..Len(s)] == IF n = 0 THEN 0 ELSE 10 * v[n - 1] + digit(n)
       IN  v[Len(s)]

\* The milliseconds of a timestamp H..H:MM:SS,mmm; -1 when it is not one.
ParseStamp(s) ==
  LET n  == Len(s)
      h  == ParseInt(SubSeq(s, 1, n - 10))
      mi == ParseInt(SubSeq(s, n - 8, n - 7))
      se == ParseInt(SubSeq(s, n - 5, n - 4))
      ms == ParseInt(SubSeq(s, n - 2, n))
  IN  IF n < 12 \/ SubSeq(s, n - 9, n - 9) # ":" \/ SubSeq(s, n - 6, n - 6) # ":"
           \/ SubSeq(s, n - 3, n - 3) # "," \/ h < 0 \/ mi < 0 \/ se < 0 \/ ms < 0
      THEN 0 - 1
      ELSE ((h * 60 + mi) * 60 + se) * 1000 + ms

\* Where the arrow of a "start --> end" line begins (0: no arrow).
ArrowAt(s) ==
  IF \E n \in 1..Len(s) : SubSeq(s, n, n + 4) = " --> "
  THEN CHOOSE n \in 1..Len(s) :
         SubSeq(s, n, n + 4) = " --> " /\ \A m \in 1..(n - 1) : SubSeq(s, m, m + 4) # " --> "
  ELSE 0

\* The cues read back: the blocks are the runs of lines between blank lines;
\* line 1 is the index, line 2 the two timestamps, line 3 (if any) the text.
ReadSrt(s) ==
  LET ls     == Lines(s)
      first  == {k \in 1..Len(ls) : ls[k] # "" /\ (k = 1 \/ ls[k - 1] = "")}
      nth(b) == CHOOSE k \in first : Cardinality({m \in first : m <= k}) = b
      line(k) == IF k <= Len(ls) THEN ls[k] ELSE ""
  IN  [b \in 1..Cardinality(first) |->
         LET k == nth(b)
             t == line(k + 1)
         IN  [index |-> ParseInt(ls[k]),
              start |-> ParseStamp(SubSeq(t, 1, ArrowAt(t) - 1)),
              end   |-> ParseStamp(SubSeq(t, ArrowAt(t) + 5, Len(t))),
              text  |-> IF line(k + 1) = "" THEN "" ELSE line(k + 2)]]

\* C7: the file of a finished run, read back, gives as many cues as were
\* written, each with the index, the start and end to the millisecond, and
\* the text of the cue written.
C7_RoundTrip ==
  pc = "done" =>
    LET back == ReadSrt(f)
    IN  /\ Len(back) = Len(cues)
        /\ \A n \in 1..Len(cues) :
             /\ back[n].index = cues[n].index
             /\ back[n].start = cues[n].start \div (TicksPerSecond \div 1000)
             /\ back[n].end = cues[n].end \div (TicksPerSecond \div 1000)
             /\ back[n].text = cues[n].text

Count(evs, type) == Len(SelectSeq(evs, LAMBDA e : e.type = type))

\* C8: a failure is an error status or an error event, never a success: 404
\* before anything is started when a file is missing; an encoder that exits
\* with a non-zero code ends /burn with one error event and no complete event
\* (and with one complete and no error on exit code 0); a recognizer that fails
\* inside the /transcribe stream gives an error event.
C8_FailuresSurfaced ==
  /\ status = 404 => pc = "exit" /\ shell = "none" /\ events = <<>> /\ fstate = "none"
  /\ (shell = "burn" /\ pc = "done") =>
       IF returncode = 0
       THEN Count(events, "complete") = 1 /\ Count(events, "error") = 0
       ELSE Count(events, "error") = 1 /\ Count(events, "complete") = 0
  /\ (shell = "web" /\ pc = "raised") =>
       Count(events, "error") >= 1 /\ Count(events, "complete") = 0

SegmentEvents == SelectSeq(events, LAMBDA e : e.type = "segment")

\* C9: in a /transcribe stream the three status events come first, in order;
\* then one segment event per cue, in cue order, with that cue's formatted end
\* time and text, each after its cue's block is in the file and before any
\* later block is; then one complete event, last, after every block is written
\* and the file is closed.  The segment events sent are as many as the blocks
\* written, or one fewer, and as many at complete.
C9_StreamOrder ==
  shell = "web" =>
    /\ \A n \in 1..Len(events) :
         /\ n = 1 => events[n] = StatusEvent("Loading model")
         /\ n = 2 => events[n] = StatusEvent("Starting transcription...")
         /\ n = 3 => events[n] = StatusEvent("Detected language")
         /\ n > 3 => events[n].type \in {"segment", "complete"}
         /\ events[n].type = "complete" =>
              /\ n = Len(events) /\ pc = "done" /\ fstate = "closed"
              /\ Len(SegmentEvents) = Len(cues)
    /\ pc = "done" => Count(events, "complete") = 1
    /\ Len(SegmentEvents) \in {Len(cues), Len(cues) - 1}
    /\ f = Blocks(cues)
    /\ \A n \in 1..Len(SegmentEvents) :
         /\ SegmentEvents[n].time = srt_time[cues[n].end]
         /\ SegmentEvents[n].text = cues[n].text
    /\ Len(cues) > 0 => Len(events) >= 3 /\ fstate # "none"

C9_Witness ==
  /\ shell = "web" /\ pc = "done" /\ Len(cues) >= 3 /\ Len(consumed) = 2
  /\ Len(events) = Len(cues) + 4

\* C10: whatever max_words the shells pass on, every segment gives at least
\* one cue.
C10_NoSegmentDropped ==
  \A s \in 1..Len(consumed) : Completed(s) => Len(CuesOf(s)) >= 1

====
